---- MODULE Spec2Model ----
(***************************************************************************)
(* Model of CandleFlickerLED.c: the Timer0 overflow handler of an AVR      *)
(* candle-flicker LED.  The handler keeps a 32-bit generator in registers  *)
(* r20 (low byte) .. r23 (high byte) and a 5-bit frame counter in r24, and *)
(* writes the PWM duty cycle to OCR0A.  Registers are modelled as bytes    *)
(* and every instruction by its effect on bytes.                           *)
(***************************************************************************)
EXTENDS Integers, Sequences

VARIABLES r20, r21, r22, r23,   \* generator RAND, r20 the low byte
          r24,                  \* FRAME_CTR
          OCR0A,                \* PWM duty-cycle register
          ticks,                \* history: handler invocations so far
          regen,                \* history: times .LNEW_RAND ran in the last tick
          wrote,                \* history: the last tick executed "out OCR0A"
          nregen,               \* history: times .LNEW_RAND ran since the start
          changed,              \* history: some tick changed the generator
          win,                  \* history: ticks since r24 was last 0 (-1: never)
          cycRegens,            \* history: regenerations in the current window
          cycCommits,           \* history: commits in the current window
          sinceCommit,          \* history: regenerations since the last commit
          cp,                   \* history: frames that regenerated in this cycle
          lastRegenFrame,       \* history: frame of the latest regeneration (-1: none)
          SREG_I,               \* global interrupt enable flag
          TOV0,                 \* Timer0 overflow flag: a tick is pending
          isr                   \* handler invocations in flight, innermost first

vars == <<r20, r21, r22, r23, r24, OCR0A, ticks, regen, wrote, nregen,
          changed, win, cycRegens, cycCommits, sinceCommit, cp,
          lastRegenFrame, SREG_I, TOV0, isr>>

(* What the handler and main share: the registers and the PWM register. *)
regs == <<r20, r21, r22, r23, r24, OCR0A>>

(* What only observes the run. *)
history == <<ticks, regen, wrote, nregen, changed, win, cycRegens,
             cycCommits, sinceCommit, cp, lastRegenFrame>>

(* The interrupt machinery. *)
hw == <<SREG_I, TOV0, isr>>

(* Bounds of the model. *)
MaxTicks == 4096
MaxAnyTicks == 2
MaxCorruptTicks == 32
MaxRegens == 440000
MaxIsrTicks == 64
MaxNest == 2

(* #define LFSR_FEEDBACK_TERM 0x7FFFF159 *)
LFSR_FEEDBACK_TERM == 2147479897

----------------------------------------------------------------------------
(* Bits and bytes. *)

Bit(x, i) == (x \div (2 ^ i)) % 2

And8(a, b) ==
    (a % 2) * (b % 2)
  + ((a \div 2) % 2) * ((b \div 2) % 2) * 2
  + ((a \div 4) % 2) * ((b \div 4) % 2) * 4
  + ((a \div 8) % 2) * ((b \div 8) % 2) * 8
  + ((a \div 16) % 2) * ((b \div 16) % 2) * 16
  + ((a \div 32) % 2) * ((b \div 32) % 2) * 32
  + ((a \div 64) % 2) * ((b \div 64) % 2) * 64
  + ((a \div 128) % 2) * ((b \div 128) % 2) * 128

Xor8(a, b) == a + b - 2 * And8(a, b)

Or8(a, b) == a + b - And8(a, b)

(* AVR instructions, by their effect on a byte register. *)
INC(r) == (r + 1) % 256                 \* inc
ANDI(r, k) == And8(r, k)                \* andi
LSR(r) == r \div 2                      \* lsr: bit 7 := 0, carry := bit 0
ROR(r, c) == c * 128 + (r \div 2)       \* ror: bit 7 := carry, carry := bit 0
EOR(r, k) == Xor8(r, k)                 \* eor
COM(r) == 255 - r                       \* com: one's complement
SWAP(r) == (r % 16) * 16 + (r \div 16)  \* swap: exchange the nibbles
ORI(r, k) == Or8(r, k)                  \* ori

(* The generator RAND as its two 16-bit halves. *)
RandLo == r20 + 256 * r21
RandHi == r22 + 256 * r23

----------------------------------------------------------------------------
(* The steps of ISR(TIM0_OVF_vect). *)

(* Variant: the "andi r24,0x1F" is missing. *)
FrameInc_NoMask(ctr) == INC(ctr)

(* inc r24 ; andi r24,0x1F *)
FrameInc(ctr) == ANDI(INC(ctr), 31)

(* Variant: checkpoints every 4 frames ("andi r31,lo8(3)"). *)
NeedRand_Every4(ctr, lo) ==
    IF ctr = 0 THEN TRUE
    ELSE IF ANDI(ctr, 3) # 0 THEN FALSE
    ELSE ANDI(lo, 12) = 0

(* Variant: no mandatory regeneration at frame 0. *)
NeedRand_NoMandatory(ctr, lo) ==
    IF ANDI(ctr, 7) # 0 THEN FALSE
    ELSE ANDI(lo, 12) = 0

(* Variant: frame 16 regenerates unconditionally, like frame 0. *)
NeedRand_Mandatory16(ctr, lo) ==
    IF ANDI(ctr, 15) = 0 THEN TRUE
    ELSE IF ANDI(ctr, 7) # 0 THEN FALSE
    ELSE ANDI(lo, 12) = 0

(* Variant: the low-value test masks with 8 instead of 12. *)
NeedRand_Mask8(ctr, lo) ==
    IF ctr = 0 THEN TRUE
    ELSE IF ANDI(ctr, 7) # 0 THEN FALSE
    ELSE ANDI(lo, 8) = 0

(* tst r24 / breq .LNEW_RAND ; andi r31,lo8(7) / brne .LNEW_PWM ;          *)
(* mov r31,r20 / andi r31,lo8(12) / brne .LNEW_PWM ; else fall through.    *)
NeedRand(ctr, lo) ==
    IF ctr = 0 THEN TRUE
    ELSE IF ANDI(ctr, 7) # 0 THEN FALSE
    ELSE ANDI(lo, 12) = 0

(* Variant: "sbrs" in place of "sbrc". *)
SkipFeedback_Sbrs(old) == Bit(old, 0) = 0

(* sbrc r31,0 / rjmp .LNEW_PWM: sbrc skips the rjmp when bit 0 of the old  *)
(* low byte is clear, so the feedback is skipped when that bit is set.     *)
SkipFeedback(old) == Bit(old, 0) = 1

(* Variant: the top byte of the feedback is 0xFF instead of 0x7F. *)
NewRand_Top255(b0, b1, b2, b3) ==
    LET s3 == LSR(b3)
        s2 == ROR(b2, b3 % 2)
        s1 == ROR(b1, b2 % 2)
        s0 == ROR(b0, b1 % 2)
    IN  IF Bit(b0, 0) = 1
        THEN <<s0, s1, s2, s3>>
        ELSE <<EOR(s0, 89), EOR(s1, 241), COM(s2), EOR(s3, 255)>>

(* Variant: the "com r22" of the feedback is missing. *)
NewRand_NoCom(b0, b1, b2, b3) ==
    LET s3 == LSR(b3)
        s2 == ROR(b2, b3 % 2)
        s1 == ROR(b1, b2 % 2)
        s0 == ROR(b0, b1 % 2)
    IN  IF Bit(b0, 0) = 1
        THEN <<s0, s1, s2, s3>>
        ELSE <<EOR(s0, 89), EOR(s1, 241), s2, EOR(s3, 127)>>

(* .LNEW_RAND: lsr r23 / ror r22 / ror r21 / ror r20, then the feedback.   *)
NewRand(b0, b1, b2, b3) ==
    LET s3 == LSR(b3)
        s2 == ROR(b2, b3 % 2)
        s1 == ROR(b1, b2 % 2)
        s0 == ROR(b0, b1 % 2)
    IN  IF SkipFeedback(b0)
        THEN <<s0, s1, s2, s3>>
        ELSE <<EOR(s0, 89), EOR(s1, 241), COM(s2), EOR(s3, 127)>>

(* Variant: the commit is made at frame 0. *)
IsCommit_Frame0(ctr) == ctr = 0

(* cpi r24,0x1F / brne .LRETI *)
IsCommit(ctr) == ctr = 31

(* Variant: the "swap r31" is missing. *)
NewPwm_NoSwap(lo) == IF Bit(lo, 4) = 1 THEN 255 ELSE ORI(lo, 15)

(* ldi r31,0xFF / sbrc r20,4 / rjmp .LSET_PWM ; mov r31,r20 / swap / ori   *)
NewPwm(lo) == IF Bit(lo, 4) = 1 THEN 255 ELSE ORI(SWAP(lo), 15)

(* One invocation of the handler, from "inc r24" to "reti". *)
Handler ==
    LET ctr == FrameInc(r24)
        go  == NeedRand(ctr, r20)
        g   == IF go THEN NewRand(r20, r21, r22, r23)
                     ELSE <<r20, r21, r22, r23>>
        n   == IF go THEN 1 ELSE 0
        w   == IsCommit(ctr)
    IN  /\ r24' = ctr
        /\ r20' = g[1]
        /\ r21' = g[2]
        /\ r22' = g[3]
        /\ r23' = g[4]
        /\ OCR0A' = IF w THEN NewPwm(g[1]) ELSE OCR0A
        /\ wrote' = w
        /\ regen' = n
        /\ nregen' = nregen + n
        /\ changed' = (changed \/ g # <<r20, r21, r22, r23>>)
        /\ ticks' = ticks + 1
        /\ win' = IF r24 = 0 THEN 1 ELSE IF win = -1 THEN -1 ELSE win + 1
        /\ cycRegens' = (IF r24 = 0 THEN 0 ELSE cycRegens) + n
        /\ cycCommits' = (IF r24 = 0 THEN 0 ELSE cycCommits) + (IF w THEN 1 ELSE 0)
        /\ sinceCommit' = (IF wrote THEN 0 ELSE sinceCommit) + n
        /\ cp' = (IF ctr = 0 THEN {} ELSE cp) \cup (IF go THEN {ctr} ELSE {})
        /\ lastRegenFrame' = IF go THEN ctr ELSE lastRegenFrame

(* The history variables at the start of a run. *)
HistoryInit ==
    /\ ticks = 0
    /\ regen = 0
    /\ wrote = FALSE
    /\ nregen = 0
    /\ changed = FALSE
    /\ win = IF r24 = 0 THEN 0 ELSE -1
    /\ cycRegens = 0
    /\ cycCommits = 0
    /\ sinceCommit = 0
    /\ cp = {}
    /\ lastRegenFrame = -1

(* main after "sei", in its sleep loop: interrupts enabled, no tick        *)
(* pending, no handler running.                                            *)
IdleInit ==
    /\ SREG_I = 1
    /\ TOV0 = 0
    /\ isr = <<>>

----------------------------------------------------------------------------
(* Spec: the program from power-on.  main sets OCR0A = 0, copies the zero  *)
(* register r1 into r20..r24, enables interrupts and sleeps.               *)

Init ==
    /\ OCR0A = 0
    /\ r20 = 0
    /\ r21 = 0
    /\ r22 = 0
    /\ r23 = 0
    /\ r24 = 0
    /\ HistoryInit
    /\ IdleInit

(* A tick served from the sleep loop, from interrupt entry to "reti". *)
Tick == ticks < MaxTicks /\ Handler /\ UNCHANGED hw

Next == Tick

Spec == Init /\ [][Next]_vars

----------------------------------------------------------------------------
(* SpecAny: the handler applied to arbitrary register contents: every low  *)
(* byte, every frame counter, and upper bytes from a sample.               *)

HiBytes == { <<0, 0, 0>>, <<94, 85, 85>>, <<241, 255, 127>>, <<255, 255, 255>> }

InitAny ==
    /\ OCR0A = 0
    /\ r20 \in 0..255
    /\ \E h \in HiBytes : r21 = h[1] /\ r22 = h[2] /\ r23 = h[3]
    /\ r24 \in 0..31
    /\ HistoryInit
    /\ IdleInit

TickAny == ticks < MaxAnyTicks /\ Handler /\ UNCHANGED hw

NextAny == TickAny

SpecAny == InitAny /\ [][NextAny]_vars

----------------------------------------------------------------------------
(* SpecCorrupt: the program running on after the generator and the frame   *)
(* counter have been overwritten: every low byte, every frame counter, and *)
(* upper bytes 0x000000 or 0x55555E, followed for a full 32-frame cycle.   *)

CorruptHiBytes == { <<0, 0, 0>>, <<94, 85, 85>> }

InitCorrupt ==
    /\ OCR0A = 0
    /\ r20 \in 0..255
    /\ \E h \in CorruptHiBytes : r21 = h[1] /\ r22 = h[2] /\ r23 = h[3]
    /\ r24 \in 0..31
    /\ HistoryInit
    /\ IdleInit

TickCorrupt == ticks < MaxCorruptTicks /\ Handler /\ UNCHANGED hw

NextCorrupt == TickCorrupt

SpecCorrupt == InitCorrupt /\ [][NextCorrupt]_vars

----------------------------------------------------------------------------
(* SpecRegen: the regeneration step alone, applied repeatedly to the       *)
(* power-on generator value.                                               *)

Regen ==
    /\ nregen < MaxRegens
    /\ LET g == NewRand(r20, r21, r22, r23)
       IN  /\ r20' = g[1]
           /\ r21' = g[2]
           /\ r22' = g[3]
           /\ r23' = g[4]
           /\ changed' = (changed \/ g # <<r20, r21, r22, r23>>)
    /\ regen' = 1
    /\ nregen' = nregen + 1
    /\ UNCHANGED <<r24, OCR0A, ticks, wrote, win, cycRegens, cycCommits,
                   sinceCommit, cp, lastRegenFrame>>
    /\ UNCHANGED hw

NextRegen == Regen

SpecRegen == Init /\ [][NextRegen]_vars

----------------------------------------------------------------------------
(* SpecIsr: the program from power-on with the interrupt machinery in      *)
(* steps: the timer raises TOV0, the CPU enters the handler when SREG_I    *)
(* and TOV0 are set (clearing both), the handler body runs, and "reti"     *)
(* sets SREG_I again.  The timer may overflow at any moment.               *)

(* Variant: the handler is entered with SREG_I left as it was (enabled). *)
IFlagOnEntry_NoBlock == SREG_I

(* SREG_I as the handler starts: the hardware clears it on entry and the   *)
(* naked handler has no "sei".                                             *)
IFlagOnEntry == 0

(* Timer0 overflows: the hardware sets TOV0. *)
TimerOverflow ==
    /\ ticks < MaxIsrTicks
    /\ TOV0 = 0
    /\ TOV0' = 1
    /\ UNCHANGED <<regs, history, SREG_I, isr>>

(* The CPU takes the pending interrupt. *)
IsrEnter ==
    /\ SREG_I = 1
    /\ TOV0 = 1
    /\ Len(isr) < MaxNest
    /\ isr' = <<"body">> \o isr
    /\ SREG_I' = IFlagOnEntry
    /\ TOV0' = 0
    /\ UNCHANGED <<regs, history>>

(* The handler's instructions from "inc r24" to ".LRETI". *)
IsrBody ==
    /\ isr # <<>>
    /\ Head(isr) = "body"
    /\ Handler
    /\ isr' = <<"reti">> \o Tail(isr)
    /\ UNCHANGED <<SREG_I, TOV0>>

(* "reti": return to the interrupted code and set SREG_I. *)
IsrReti ==
    /\ isr # <<>>
    /\ Head(isr) = "reti"
    /\ isr' = Tail(isr)
    /\ SREG_I' = 1
    /\ UNCHANGED <<regs, history, TOV0>>

(* main's loop: "sleep" with no handler running. *)
Sleep ==
    /\ isr = <<>>
    /\ UNCHANGED vars

NextIsr == TimerOverflow \/ IsrEnter \/ IsrBody \/ IsrReti \/ Sleep

SpecIsr == Init /\ [][NextIsr]_vars

----------------------------------------------------------------------------
(* Notions the properties are stated in, written on numbers rather than    *)
(* on instructions.                                                        *)

RECURSIVE XorBits(_, _, _)
XorBits(a, b, n) ==
    IF n = 0 THEN 0
    ELSE ((a + b) % 2) + 2 * XorBits(a \div 2, b \div 2, n - 1)

Xor16(a, b) == XorBits(a, b, 16)

(* The 32-bit value <<lo, hi>> shifted right by one bit, bit 31 := 0. *)
ShiftRight(lo, hi) == <<(lo \div 2) + (hi % 2) * 32768, hi \div 2>>

(* The 32-bit value <<lo, hi>> XORed with LFSR_FEEDBACK_TERM. *)
XorFeedback(lo, hi) ==
    <<Xor16(lo, LFSR_FEEDBACK_TERM % 65536),
      Xor16(hi, LFSR_FEEDBACK_TERM \div 65536)>>

(* Bits 2 and 3 of a low byte are both zero. *)
TooLow(lo) == (lo \div 4) % 4 = 0

(* Bit 4 of a low byte is set. *)
Bit4Set(lo) == (lo \div 16) % 2 = 1

----------------------------------------------------------------------------
(* C1: on every tick whose incremented frame counter is 31, the byte       *)
(* written to the duty-cycle register is 0xFF if bit 4 of the generator's  *)
(* low byte is set; otherwise its low nibble is 0xF and its high nibble is *)
(* the low nibble of the generator's low byte (0b00011100 -> 0xFF,         *)
(* 0b00000101 -> 0x5F).                                                    *)
C1_CommitMapping ==
    (ticks >= 1 /\ r24 = 31) =>
        /\ wrote
        /\ IF Bit4Set(r20)
           THEN OCR0A = 255
           ELSE OCR0A % 16 = 15 /\ OCR0A \div 16 = r20 % 16
        /\ (r20 = 28 => OCR0A = 255)
        /\ (r20 = 5 => OCR0A = 95)

C1_Witness == ticks >= 1 /\ r24 = 31 /\ r20 = 5 /\ OCR0A = 95

(* C2: with c the frame counter after the increment, a tick advances the   *)
(* generator (once) iff c = 0, or c is 8, 16 or 24 and bits 2 and 3 of the *)
(* generator's low byte are both zero; every other tick leaves the         *)
(* generator unchanged.                                                    *)
C2_RegenDecision ==
    [][ LET c == r24'
            fire == c = 0 \/ (c \in {8, 16, 24} /\ TooLow(r20))
        IN  /\ regen' = IF fire THEN 1 ELSE 0
            /\ nregen' = nregen + regen'
            /\ (fire => <<r20', r21', r22', r23'>> = NewRand(r20, r21, r22, r23))
            /\ (~fire => <<r20', r21', r22', r23'>> = <<r20, r21, r22, r23>>)
      ]_vars

C2_Witness == ticks >= 1 /\ regen = 1 /\ r24 \in {8, 16, 24} /\ nregen = 1

C4_ZeroInitSafe ==
    /\ (nregen = 0 => RandLo = 0 /\ RandHi = 0)
    /\ (nregen = 1 => ~(RandLo = 0 /\ RandHi = 0))

C4_Witness == nregen = 1 /\ regen = 1 /\ RandLo # 0

(* C5: the frame counter is always in 0..31, every tick sets it to         *)
(* (counter + 1) mod 32, and from power-on its values over successive      *)
(* ticks are 1, 2, ..., 31, 0, 1, ...                                      *)
C5_FrameCounter ==
    [][ /\ r24 \in 0..31
        /\ r24' \in 0..31
        /\ r24' = (r24 + 1) % 32
        /\ r24' = ticks' % 32 ]_vars

C5_Witness == ticks = 33 /\ r24 = 1

(* C6: a tick writes the duty-cycle register iff the frame counter after   *)
(* the increment is 31; every other tick leaves the register unchanged.    *)
C6_CommitOnlyAt31 ==
    [][ /\ (wrote' <=> r24' = 31)
        /\ (r24' # 31 => OCR0A' = OCR0A) ]_vars

C6_Witness == wrote /\ ticks = 63 /\ r24 = 31 /\ OCR0A # 0

(* C7: over the 32 ticks that follow a state with frame counter 0, the     *)
(* counter returns to 0, exactly one commit occurs, on the tick where the  *)
(* counter is 31, and between one and four regenerations occur.            *)
C7_Wraparound ==
    /\ (win \in 1..31 =>
           /\ r24 = win
           /\ cycCommits = (IF win = 31 THEN 1 ELSE 0)
           /\ (win = 31 => wrote)
           /\ cycRegens <= win \div 8)
    /\ (win = 32 =>
           /\ r24 = 0
           /\ cycCommits = 1
           /\ cycRegens \in 1..4)

C7_Witness == win = 32 /\ r24 = 0 /\ cycCommits = 1 /\ cycRegens = 4

(* C8: starting from the all-zero generator value, repeated regeneration   *)
(* visits 2^32 - 1 states, each exactly once, before returning to the      *)
(* start: the generator is not zero again after 1 .. 2^32 - 2 steps        *)
(* (MaxRegens is below 2^32 - 2).                                          *)
C8_FullPeriod ==
    nregen \in 1..MaxRegens => ~(RandLo = 0 /\ RandHi = 0)

(* C9: no generator value reachable from power-on is a fixed point of the  *)
(* regeneration step: every regeneration that fires changes the value.     *)
C9_NoFixedPointReachable ==
    NewRand(r20, r21, r22, r23) # <<r20, r21, r22, r23>>

C9_Witness == nregen = 2 /\ regen = 1 /\ changed

(* The generator holds 0x55555E6E. *)
IsFixedValue == r20 = 110 /\ r21 = 94 /\ r22 = 85 /\ r23 = 85

(* C10 as stated: whatever the generator and the frame counter are set to, *)
(* the generator value has changed within the next 32 ticks.               *)
C10_AnyValueChanges == ticks = 32 => changed

(* C10 amended: whatever the generator and the frame counter are set to,   *)
(* unless the generator is set to 0x55555E6E, the generator value has      *)
(* changed within the next 32 ticks, at the latest on the tick that wraps  *)
(* the frame counter to 0.                                                 *)
C10_NonFixedValueChanges ==
    (ticks = 32 \/ (ticks >= 1 /\ r24 = 0)) => (changed \/ IsFixedValue)

C10_Witness == ticks = 32 /\ changed /\ ~IsFixedValue /\ nregen = 1

(* The duty cycles 0x0F, 0x1F, ..., 0xEF. *)
NonMaxLevels == { 16 * k + 15 : k \in 0..14 }

(* C11 as stated: whenever a commit is made from a generator value whose   *)
(* low-byte bit 4 is clear, the committed duty cycle is one of 0x0F, 0x1F, *)
(* ..., 0xEF and never 0xFF; 0xFF is committed only when bit 4 is set.     *)
C11_NonMaximalLevels ==
    wrote =>
        /\ (~Bit4Set(r20) => OCR0A \in NonMaxLevels /\ OCR0A # 255)
        /\ (OCR0A = 255 => Bit4Set(r20))

(* C11 amended: whenever a commit is made from a generator value whose     *)
(* low-byte bit 4 is clear, the committed duty cycle is one of the 16      *)
(* levels 0x0F, 0x1F, ..., 0xEF, 0xFF, namely (low nibble * 16) + 15,      *)
(* which is 0xFF when the low nibble is 0xF; 0xFF is committed only when   *)
(* bit 4 is set or the low nibble is 0xF.                                  *)
C11_SixteenLevels ==
    /\ \A lo \in 0..255 :
          ~Bit4Set(lo) => NewPwm(lo) = 16 * (lo % 16) + 15
    /\ wrote =>
          /\ (~Bit4Set(r20) =>
                 /\ OCR0A = 16 * (r20 % 16) + 15
                 /\ OCR0A \in NonMaxLevels \cup {255})
          /\ (OCR0A = 255 => Bit4Set(r20) \/ r20 % 16 = 15)

C11_Witness == wrote /\ ~Bit4Set(r20) /\ r20 % 16 = 15 /\ OCR0A = 255

(* C12: once interrupts are enabled, the generator, the frame counter and  *)
(* the duty-cycle register are changed only by the handler's body; at most *)
(* one handler invocation is in flight, with interrupts disabled until its *)
(* "reti", so a tick arriving meanwhile waits; the idle loop changes       *)
(* nothing.                                                                *)
C12_SingleWriter ==
    [][ /\ Len(isr') <= 1
        /\ (isr' # <<>> => SREG_I' = 0)
        /\ (isr' = <<>> => SREG_I' = 1)
        /\ (regs' # regs => isr = <<"body">> /\ isr' = <<"reti">>)
        /\ (isr = <<>> /\ isr' = <<>> => regs' = regs)
        /\ (ticks' # ticks => ticks' = ticks + 1 /\ isr = <<"body">>) ]_vars

C12_Witness == isr = <<"reti">> /\ TOV0 = 1 /\ SREG_I = 0 /\ ticks >= 2

(* C13: every generator value the checkpoint test rejects (bits 2 and 3 of *)
(* the low byte both zero) would under the commit mapping give a dim duty  *)
(* cycle: at most 0x3F, never 0xFF, and lower than that of any value the   *)
(* test accepts.                                                           *)
C13_RejectedAreDim ==
    [][ (regen' = 1 /\ r24' \in {8, 16, 24}) =>
          /\ TooLow(r20)
          /\ NewPwm(r20) <= 63
          /\ NewPwm(r20) # 255
          /\ \A lo \in 0..255 : ~TooLow(lo) => NewPwm(r20) < NewPwm(lo) ]_vars

(* The generator is 0x00000000. *)
RandIsZero == RandLo = 0 /\ RandHi = 0

(* C14 as stated: the engine starts at frame 0 with generator 0, the first *)
(* tick is handled as frame 0, and the first regeneration to fire is the   *)
(* mandatory frame-0 regeneration applied to generator 0.                  *)
C14_FirstTickIsFrame0 ==
    /\ (ticks = 0 => r24 = 0 /\ RandIsZero)
    /\ (ticks = 1 => r24 = 0 /\ regen = 1)
    /\ (nregen = 1 => lastRegenFrame = 0)

(* C14 amended: the engine starts with frame counter 0 and generator 0;    *)
(* the first tick increments the counter before testing it and is handled  *)
(* as frame 1, so the first regeneration to fire is the conditional        *)
(* frame-8 regeneration, on tick 8, applied to generator 0; the first      *)
(* mandatory frame-0 regeneration fires on tick 32.                        *)
C14_FirstRegenAtFrame8 ==
    /\ (ticks = 0 => r24 = 0 /\ RandIsZero)
    /\ (ticks = 1 => r24 = 1 /\ regen = 0)
    /\ (ticks < 8 => nregen = 0 /\ RandIsZero)
    /\ (ticks = 8 => r24 = 8 /\ regen = 1 /\ nregen = 1 /\ ~RandIsZero)
    /\ (nregen = 1 => lastRegenFrame = 8)
    /\ (ticks = 32 => r24 = 0 /\ regen = 1 /\ nregen = 2)

C14_Witness == ticks = 8 /\ regen = 1 /\ nregen = 1 /\ lastRegenFrame = 8

(* C15: from power-on the duty-cycle register holds 0 until the first      *)
(* commit; commits occur on exactly the ticks 31, 63, 95, ...; no tick     *)
(* both regenerates and commits; the tick after a commit regenerates; and  *)
(* between two consecutive commits the generator is advanced one to four   *)
(* times.                                                                  *)
C15_CommitSchedule ==
    [][ /\ (wrote' <=> ticks' % 32 = 31)
        /\ (ticks' < 31 => OCR0A' = 0)
        /\ ~(wrote' /\ regen' = 1)
        /\ (wrote => regen' = 1)
        /\ (wrote' /\ ticks' >= 63 => sinceCommit' \in 1..4) ]_vars

C15_Witness == wrote /\ ticks >= 63 /\ sinceCommit = 4

(* C16: within a cycle a regeneration at frame 16 implies one at frame 8   *)
(* and a regeneration at frame 24 implies one at frame 16; a commit of a   *)
(* too-low value happens only in a cycle in which frames 0, 8, 16 and 24   *)
(* all regenerated, and commits the value the frame-24 regeneration made.  *)
C16_ConsecutiveRetries ==
    /\ cp \subseteq {0, 8, 16, 24}
    /\ (16 \in cp => 8 \in cp)
    /\ (24 \in cp => 16 \in cp)
    /\ (wrote /\ TooLow(r20) => cp = {0, 8, 16, 24} /\ lastRegenFrame = 24)

C16_Witness == wrote /\ TooLow(r20) /\ cp = {0, 8, 16, 24}

(* C17: the result of every regeneration step has bit 31 clear, as has the *)
(* feedback constant, so every generator value reachable from power-on is  *)
(* below 2^31.                                                             *)
C17_TopBitClear ==
    /\ r23 < 128
    /\ RandHi < 32768
    /\ LFSR_FEEDBACK_TERM \div 65536 < 32768

C17_Witness == nregen >= 1 /\ regen = 1 /\ r23 >= 64

====
